---- MODULE Spec2Model ----
(***************************************************************************)
(* A model of xhttpc (src/xhttpc.go): the response read modes of           *)
(* XResponse, the request constructors and XDo of XClient, resolveURL and  *)
(* the toValues/addValues flattener.                                       *)
(*                                                                         *)
(* Each part of the library has its own specification over the variables   *)
(* it uses; the variables of the other parts stay at their idle values.    *)
(*   SpecResp   DecodeJson / ReadAll / Copy on a response                  *)
(*   SpecReq    NewRequest / NewUploadRequest / NewMultipartRequest / XDo  *)
(*   SpecCall   Get / Delete / Post / Put: toValues, resolveURL            *)
(*   SpecConc   two concurrent Get/Delete calls sharing one *url.URL       *)
(***************************************************************************)
EXTENDS Naturals, Sequences, FiniteSets, TLC

VARIABLES
    resp,       \* the *http.Response wrapped by XResponse: header, body stream
    rd,         \* the last read-mode call on resp: its input and its results
    client,     \* XClient: BaseHeader, BaseQuery
    req,        \* the last request-constructor call: its input and its results
    xdo,        \* the last XDo call: context, transport outcome, results
    u,          \* the *url.URL handed to Get/Delete/Post/Put
    call,       \* the last Get/Delete/Post/Put call: its input and its results
    procs       \* the concurrent calls of SpecConc: position and locals

vars == <<resp, rd, client, req, xdo, u, call, procs>>

\* ------------------------------------------------------------------ bounds

\* longest response body, in bytes
MaxBodyLen == 3
\* longest JSON array of the structured values handed to toValues
MaxSeqLen == 2

\* ------------------------------------------------------------- small helpers

RECURSIVE SeqsUpTo(_, _)
SeqsUpTo(S, n) ==
    IF n = 0 THEN {<<>>}
    ELSE LET shorter == SeqsUpTo(S, n - 1)
         IN  shorter \cup {Append(s, x) : s \in {t \in shorter : Len(t) = n - 1}, x \in S}

\* all orders in which the keys of a Go map can be ranged over
RECURSIVE Orders(_)
Orders(S) ==
    IF S = {} THEN {<<>>}
    ELSE UNION {{<<x>> \o o : o \in Orders(S \ {x})} : x \in S}

\* ------------------------------------------- idle values of the variables

IdleResp == [Body |-> <<>>, Fails |-> FALSE, ContentEncoding |-> "", Closed |-> FALSE]
IdleClient == [BaseHeader |-> <<>>, BaseQuery |-> <<>>]
IdleReq == [mode |-> "none", header |-> <<>>, derived |-> "none", log |-> <<>>,
            out |-> [err |-> "nil", Method |-> "", URL |-> "", Body |-> "nil", Header |-> <<>>]]
IdleXDo == [state |-> "none", ctx |-> "live", ctxAfter |-> "live", outcome |-> "response",
            ret |-> [resp |-> "nil", err |-> "nil"]]
IdleURL == [Prefix |-> "", RawQuery |-> "", ForceQuery |-> FALSE, Fragment |-> ""]
IdleProcs == <<>>

\* ------------------------------------------------------ response: the streams

\* Body bytes.  "G" stands for a gzip member header, "p" and "q" for deflate
\* data that inflates to "1" and "x", "T" for the gzip member trailer; "1" is
\* a plain byte that is a JSON document (a digit), any other byte is not JSON.
BodyBytes == {"G", "p", "q", "T", "1"}
Bodies == SeqsUpTo(BodyBytes, MaxBodyLen)

\* values of the Content-Encoding response header; "" is the absent header
Encodings == {"", "gzip", "GZIP", "deflate"}

\* A stream is the bytes it delivers and the error that ends it ("EOF" for a
\* clean end).  resp.Body delivers what is left of the body; a body whose
\* connection fails ends with a read error; a closed body delivers nothing.
BodyStream(r) ==
    IF r.Closed THEN [data |-> <<>>, err |-> "http: read on closed response body"]
    ELSE [data |-> r.Body, err |-> IF r.Fails THEN "read error" ELSE "EOF"]

InflateByte(b) == IF b = "p" THEN "1" ELSE "x"

\* compress/gzip Reader.Read to the end, positioned after a member header:
\* deflate data up to the trailer, then the next member's header (multistream)
RECURSIVE Inflate(_, _, _)
Inflate(bytes, end, out) ==
    IF bytes = <<>> THEN
        [data |-> out, err |-> IF end = "EOF" THEN "unexpected EOF" ELSE end]
    ELSE IF Head(bytes) \in {"p", "q"} THEN
        Inflate(Tail(bytes), end, Append(out, InflateByte(Head(bytes))))
    ELSE IF Head(bytes) = "T" THEN
        IF Tail(bytes) = <<>> THEN [data |-> out, err |-> end]
        ELSE IF Head(Tail(bytes)) = "G" THEN Inflate(Tail(Tail(bytes)), end, out)
        ELSE [data |-> out, err |-> "gzip: invalid header"]
    ELSE [data |-> out, err |-> "flate: corrupt input"]

\* gzip.NewReader(resp.Body): reads the member header; err "nil" and the
\* decompressed stream, or the error of the header read
GzipNewReader(s) ==
    IF s.data = <<>> THEN [err |-> s.err, stream |-> [data |-> <<>>, err |-> s.err]]
    ELSE IF Head(s.data) # "G" THEN
        [err |-> "gzip: invalid header", stream |-> [data |-> <<>>, err |-> "gzip: invalid header"]]
    ELSE [err |-> "nil", stream |-> Inflate(Tail(s.data), s.err, <<>>)]

\* json.NewDecoder(reader).Decode(v): a syntax error in the bytes delivered,
\* else the stream's error, io.EOF on an empty stream, nil on a document
JsonDecode(s) ==
    IF \E i \in 1..Len(s.data) : s.data[i] # "1" THEN "json: syntax error"
    ELSE IF s.err # "EOF" THEN s.err
    ELSE IF s.data = <<>> THEN "EOF"
    ELSE "nil"

\* ioutil.ReadAll(reader): everything delivered, io.EOF reported as nil
IoReadAll(s) == [data |-> s.data, err |-> IF s.err = "EOF" THEN "nil" ELSE s.err]

\* the Content-Encoding test made case-insensitive
IsGzipAnyCase(r) == r.ContentEncoding \in {"gzip", "GZIP"}

\* the switch on resp.Header.Get("Content-Encoding") of DecodeJson and ReadAll
IsGzip(r) == r.ContentEncoding = "gzip"

NoRead == [mode |-> "none", first |-> FALSE, in |-> <<>>, inClosed |-> FALSE, view |-> "none",
           err |-> "nil", data |-> <<>>, sink |-> <<>>]

\* what a read leaves of the body: the bytes are consumed (the stream is
\* single-pass) and closed tells whether resp.Body.Close() ran
Consumed(r, closed) == [r EXCEPT !.Body = <<>>, !.Closed = r.Closed \/ closed]

\* XResponse.DecodeJson
DecodeJson ==
    LET body == BodyStream(resp) IN
    IF IsGzip(resp) THEN
        LET gz == GzipNewReader(body) IN
        IF gz.err # "nil" THEN
            \* return err: nothing is deferred yet, the body stays open
            /\ rd' = [mode |-> "DecodeJson", first |-> rd.mode = "none", in |-> resp.Body, inClosed |-> resp.Closed,
                      view |-> "gzip", err |-> gz.err, data |-> <<>>, sink |-> <<>>]
            /\ resp' = Consumed(resp, FALSE)
        ELSE
            \* the deferred Close is the gzip reader's: it leaves resp.Body open
            LET decErr == JsonDecode(gz.stream) IN
            /\ rd' = [mode |-> "DecodeJson", first |-> rd.mode = "none", in |-> resp.Body, inClosed |-> resp.Closed,
                      view |-> "gzip",
                      err |-> IF decErr = "EOF" THEN "nil" ELSE decErr,
                      data |-> IF decErr = "nil" THEN gz.stream.data ELSE <<>>,
                      sink |-> <<>>]
            /\ resp' = Consumed(resp, FALSE)
    ELSE
        LET decErr == JsonDecode(body) IN
        /\ rd' = [mode |-> "DecodeJson", first |-> rd.mode = "none", in |-> resp.Body, inClosed |-> resp.Closed,
                  view |-> "raw",
                  err |-> IF decErr = "EOF" THEN "nil" ELSE decErr,
                  data |-> IF decErr = "nil" THEN body.data ELSE <<>>,
                  sink |-> <<>>]
        /\ resp' = Consumed(resp, TRUE)

\* XResponse.ReadAll
ReadAll ==
    LET body == BodyStream(resp) IN
    IF IsGzip(resp) THEN
        LET gz == GzipNewReader(body) IN
        IF gz.err # "nil" THEN
            /\ rd' = [mode |-> "ReadAll", first |-> rd.mode = "none", in |-> resp.Body, inClosed |-> resp.Closed,
                      view |-> "gzip", err |-> gz.err, data |-> <<>>, sink |-> <<>>]
            /\ resp' = Consumed(resp, FALSE)
        ELSE
            LET all == IoReadAll(gz.stream) IN
            /\ rd' = [mode |-> "ReadAll", first |-> rd.mode = "none", in |-> resp.Body, inClosed |-> resp.Closed,
                      view |-> "gzip", err |-> all.err, data |-> all.data, sink |-> <<>>]
            /\ resp' = Consumed(resp, FALSE)
    ELSE
        LET all == IoReadAll(body) IN
        /\ rd' = [mode |-> "ReadAll", first |-> rd.mode = "none", in |-> resp.Body, inClosed |-> resp.Closed,
                  view |-> "raw", err |-> all.err, data |-> all.data, sink |-> <<>>]
        /\ resp' = Consumed(resp, TRUE)

\* XResponse.Copy: io.Copy(w, resp.Body), whatever the Content-Encoding
Copy ==
    LET all == IoReadAll(BodyStream(resp)) IN
    /\ rd' = [mode |-> "Copy", first |-> rd.mode = "none", in |-> resp.Body, inClosed |-> resp.Closed,
              view |-> "raw", err |-> all.err, data |-> <<>>, sink |-> all.data]
    /\ resp' = Consumed(resp, FALSE)

\* ------------------------------------------------------- requests: headers

\* type Header map[string]string: a function from some of the keys to values
PartialFns(K, V) == UNION {[D -> V] : D \in SUBSET K}

HeaderKeys == {"X", "x", "Content-Type"}
HeaderVals == {"1", "2"}
Headers == PartialFns(HeaderKeys, HeaderVals)

\* textproto.CanonicalMIMEHeaderKey, applied by http.Header.Set
Canon(k) == IF k = "x" THEN "X" ELSE k

\* req.Header.Set(k, v)
HeaderSet(h, k, v) ==
    [c \in DOMAIN h \cup {Canon(k)} |-> IF c = Canon(k) THEN v ELSE h[c]]

\* for k, v := range m { req.Header.Set(k, v) }, the keys ranged in `order`
RECURSIVE SetAll(_, _, _)
SetAll(h, m, order) ==
    IF order = <<>> THEN h
    ELSE SetAll(HeaderSet(h, Head(order), m[Head(order)]), m, Tail(order))

\* ------------------------------------------------- requests: url.Values

\* url.Values: a function from some keys to non-empty sequences of strings.
\* Keys in the byte order url.Values.Encode sorts them in.
SortedKeys ==
    <<"a", "b", "b%!(EXTRA string=a)", "m[%s]", "m[a]">>

\* url.QueryEscape on the strings of the model
QueryEscape(s) ==
    CASE s = "<nil>" -> "%3Cnil%3E"
      [] s = "b%!(EXTRA string=a)" -> "b%25%21%28EXTRA+string%3Da%29"
      [] s = "m[%s]" -> "m%5B%25s%5D"
      [] s = "m[a]" -> "m%5Ba%5D"
      [] OTHER -> s

\* key=v1&key=v2 for one key
RECURSIVE EncodeKey(_, _, _)
EncodeKey(k, vs, acc) ==
    IF vs = <<>> THEN acc
    ELSE EncodeKey(k, Tail(vs),
                   acc \o (IF acc = "" THEN "" ELSE "&")
                       \o QueryEscape(k) \o "=" \o QueryEscape(Head(vs)))

\* url.Values.Encode: the keys sorted, the values of a key in their order
RECURSIVE EncodeFrom(_, _, _)
EncodeFrom(v, keys, acc) ==
    IF keys = <<>> THEN acc
    ELSE IF Head(keys) \in DOMAIN v THEN
        EncodeFrom(v, Tail(keys), EncodeKey(Head(keys), v[Head(keys)], acc))
    ELSE EncodeFrom(v, Tail(keys), acc)

Encode(v) == EncodeFrom(v, SortedKeys, "")

\* url.Values.Add(k, s)
ValuesAdd(v, k, s) ==
    [c \in DOMAIN v \cup {k} |->
        IF c = k THEN (IF k \in DOMAIN v THEN Append(v[k], s) ELSE <<s>>) ELSE v[c]]

\* url.Values.Get(k): the first value of the key
ValuesGet(v, k) == IF k \in DOMAIN v /\ v[k] # <<>> THEN v[k][1] ELSE ""

\* ------------------------------------------- requests: the constructors

GoodURL == "http://h/p"
BadURL == ":bad"
RequestURLs == {GoodURL, BadURL}
Methods == {"GET", "POST", "PUT", "DELETE"}
MediaTypes == {"text/plain"}
FormDataContentType == "multipart/form-data; boundary=b0"

\* http.NewRequest(method, url, body): a request with no header, or the
\* error of parsing the URL
HttpNewRequest(method, url, body) ==
    IF url = BadURL THEN [err |-> "parse error", Method |-> "", URL |-> "", Body |-> "nil",
                          Header |-> <<>>]
    ELSE [err |-> "nil", Method |-> method, URL |-> url, Body |-> body, Header |-> <<>>]

NoRequest == [err |-> "nil", Method |-> "", URL |-> "", Body |-> "nil", Header |-> <<>>]

\* a url.Values argument: nil, or the values
NilValues == [isNil |-> TRUE, v |-> <<>>]
SomeValues(v) == [isNil |-> FALSE, v |-> v]

\* XClient.NewRequest
NewRequestOp(base, method, url, body, header, baseOrder, hdrOrder) ==
    LET buf == IF body.isNil THEN "nil" ELSE Encode(body.v)
        r == HttpNewRequest(method, url, buf)
    IN  IF r.err # "nil" THEN r
        ELSE [r EXCEPT !.Header = SetAll(SetAll(r.Header, base, baseOrder), header, hdrOrder)]

\* NewUploadRequest with the media type set after the call header
NewUploadRequestDerivedLast(base, url, reader, mediaType, header, baseOrder, hdrOrder) ==
    LET r == HttpNewRequest("POST", url, reader)
    IN  IF r.err # "nil" THEN r
        ELSE [r EXCEPT !.Header =
                HeaderSet(SetAll(SetAll(r.Header, base, baseOrder), header, hdrOrder),
                          "Content-Type", mediaType)]

\* XClient.NewUploadRequest; the reader is the request body as it stands
NewUploadRequestOp(base, url, reader, mediaType, header, baseOrder, hdrOrder) ==
    LET r == HttpNewRequest("POST", url, reader)
    IN  IF r.err # "nil" THEN r
        ELSE [r EXCEPT !.Header =
                SetAll(HeaderSet(SetAll(r.Header, base, baseOrder), "Content-Type", mediaType),
                       header, hdrOrder)]

\* The readers handed to NewMultipartRequest.  "plain" is no io.Closer (a
\* strings.Reader); "nopCloser" has a Close that does nothing; "strictCloser"
\* fails every Read after Close (a pipe, a response body); "file" is an
\* *os.File, which also fails every Read after Close.
ReaderKinds == {"plain", "nopCloser", "strictCloser", "file"}
FieldNames == {"f", "g"}
Closable(kind) == kind # "plain"
\* io.Copy(fieldWriter, reader) on a reader that was closed or not
CopyFails(kind, closed) == closed /\ kind \in {"strictCloser", "file"}

\* one iteration of the loop over values: the events in the order the code
\* runs them, and the error that ends the function, if any
FieldEvents(key, kind) ==
    (IF Closable(kind) THEN <<[op |-> "Close", key |-> key]>> ELSE <<>>)
    \o <<[op |-> IF kind = "file" THEN "CreateFormFile" ELSE "CreateFormField", key |-> key]>>
    \o <<[op |-> "Copy", key |-> key, ok |-> ~CopyFails(kind, Closable(kind))]>>

RECURSIVE MultipartLoop(_, _, _)
MultipartLoop(values, order, log) ==
    IF order = <<>> THEN [err |-> "nil", log |-> log]
    ELSE LET kind == values[Head(order)]
             log2 == log \o FieldEvents(Head(order), kind)
         IN  IF CopyFails(kind, Closable(kind))
             THEN [err |-> "read error", log |-> log2]
             ELSE MultipartLoop(values, Tail(order), log2)

\* XClient.NewMultipartRequest: the request and the log of what was done to
\* the readers
NewMultipartRequestOp(base, url, values, header, valOrder, baseOrder, hdrOrder) ==
    LET loop == MultipartLoop(values, valOrder, <<>>)
        r == HttpNewRequest("POST", url, "multipart")
    IN  IF loop.err # "nil" THEN [req |-> [NoRequest EXCEPT !.err = loop.err], log |-> loop.log]
        ELSE IF r.err # "nil" THEN [req |-> r, log |-> loop.log]
        ELSE [req |-> [r EXCEPT !.Header =
                        SetAll(HeaderSet(SetAll(r.Header, base, baseOrder),
                                         "Content-Type", FormDataContentType),
                               header, hdrOrder)],
              log |-> loop.log]

\* ------------------------------------------------------------------- XDo

CtxStates == {"live", "canceled", "deadline"}
\* ctx.Err()
CtxErr(c) == IF c = "canceled" THEN "context canceled" ELSE "context deadline exceeded"
\* what c.Client.Do(req) can return: a response, an error of its own, or an
\* error that wraps the context's
TransportOutcomes == {"response", "transport error", "wrapped context error"}

\* XClient.XDo: ctxAfter is the context's state when Do has returned
XDoOp(ctxAfter, outcome) ==
    IF outcome # "response" THEN
        IF ctxAfter # "live" THEN [resp |-> "nil", err |-> CtxErr(ctxAfter)]
        ELSE [resp |-> "nil", err |-> outcome]
    ELSE [resp |-> "XResponse", err |-> "nil"]

\* The constructors read the client defaults and their arguments and write
\* nothing but the request they return, so a behaviour follows one call.
NewRequest ==
    /\ req.mode = "none"
    /\ \E method \in Methods, url \in RequestURLs, header \in Headers,
          body \in {NilValues, SomeValues([k \in {"b"} |-> <<"2">>])} :
         \E baseOrder \in Orders(DOMAIN client.BaseHeader), hdrOrder \in Orders(DOMAIN header) :
            req' = [mode |-> "NewRequest", header |-> header, derived |-> "none",
                    log |-> <<>>,
                    out |-> NewRequestOp(client.BaseHeader, method, url, body, header,
                                         baseOrder, hdrOrder)]
    /\ xdo' = IdleXDo

NewUploadRequest ==
    /\ req.mode = "none"
    /\ \E url \in RequestURLs, header \in Headers, mediaType \in MediaTypes :
         \E baseOrder \in Orders(DOMAIN client.BaseHeader), hdrOrder \in Orders(DOMAIN header) :
            req' = [mode |-> "NewUploadRequest", header |-> header, derived |-> mediaType,
                    log |-> <<>>,
                    out |-> NewUploadRequestOp(client.BaseHeader, url, "reader", mediaType,
                                               header, baseOrder, hdrOrder)]
    /\ xdo' = IdleXDo

NewMultipartRequest ==
    /\ req.mode = "none"
    /\ \E url \in RequestURLs, header \in Headers,
          values \in PartialFns(FieldNames, ReaderKinds) :
         \E valOrder \in Orders(DOMAIN values),
            baseOrder \in Orders(DOMAIN client.BaseHeader),
            hdrOrder \in Orders(DOMAIN header) :
            LET r == NewMultipartRequestOp(client.BaseHeader, url, values, header,
                                           valOrder, baseOrder, hdrOrder)
            IN  req' = [mode |-> "NewMultipartRequest", header |-> header,
                        derived |-> FormDataContentType, log |-> r.log, out |-> r.req]
    /\ xdo' = IdleXDo

\* XDo on the request built last; the context may be done before the call
\* or become done while the transport runs
XDo ==
    /\ req.mode # "none" /\ req.out.err = "nil" /\ xdo.state = "none"
    /\ \E ctx \in CtxStates, ctxAfter \in CtxStates, outcome \in TransportOutcomes :
        /\ ctx # "live" => ctxAfter = ctx
        /\ xdo' = [state |-> "returned", ctx |-> ctx, ctxAfter |-> ctxAfter,
                   outcome |-> outcome, ret |-> XDoOp(ctxAfter, outcome)]
    /\ UNCHANGED req

\* ------------------------------------------------- toValues / addValues

\* The value json.Decoder.Decode (with UseNumber) leaves in
\* map[string]interface{}: json.Number, bool, nil, []interface{} and
\* map[string]interface{}.
Leaves == {[t |-> "num", s |-> "2"], [t |-> "bool", s |-> "true"], [t |-> "null", s |-> ""]}
ChildKeys == {"a"}
TopKeys == {"b", "m[%s]"}
SeqVals == {[t |-> "seq", e |-> e] : e \in SeqsUpTo(Leaves, MaxSeqLen)}
MapVals == {[t |-> "map", m |-> m] : m \in PartialFns(ChildKeys, Leaves)}
Level1 == Leaves \cup SeqVals \cup MapVals

\* the data argument: nil, a value that marshals to a JSON object, or one
\* that does not (a scalar, an array, a value json.Marshal rejects)
QueryData ==
    {[kind |-> "nil", m |-> m] : m \in PartialFns({}, Level1)}
    \cup {[kind |-> "other", m |-> m] : m \in PartialFns({}, Level1)}
    \cup {[kind |-> "object", m |-> m] : m \in PartialFns(TopKeys, Level1)}

\* fmt.Sprintf("%v", v) on a leaf
Stringify(v) == IF v.t = "null" THEN "<nil>" ELSE v.s

\* fmt.Sprintf(k, mapKey): the key as a format; without a verb in it the
\* argument is reported as EXTRA
Sprintf(k, mapKey) ==
    IF k = "m[%s]" THEN "m[" \o mapKey \o "]"
    ELSE k \o "%!(EXTRA string=" \o mapKey \o ")"

\* One order of ranging over a map whose entries go to different keys of
\* the result, where the order does not show.
KeySeq(S) == CHOOSE o \in Orders(S) : TRUE

RECURSIVE addValues(_, _, _)
RECURSIVE addSeq(_, _, _)
RECURSIVE addMap(_, _, _, _)
\* case []interface{}
addSeq(values, k, elems) ==
    IF elems = <<>> THEN values
    ELSE addSeq(addValues(values, k, Head(elems)), k, Tail(elems))
\* case map[string]interface{}
addMap(values, k, m, order) ==
    IF order = <<>> THEN values
    ELSE addMap(addValues(values, Sprintf(k, Head(order)), m[Head(order)]), k, m, Tail(order))
addValues(values, k, v) ==
    IF v.t = "seq" THEN addSeq(values, k, v.e)
    ELSE IF v.t = "map" THEN addMap(values, k, v.m, KeySeq(DOMAIN v.m))
    ELSE ValuesAdd(values, k, Stringify(v))

EmptyValues == CHOOSE v \in PartialFns({}, {<<"">>}) : TRUE

RECURSIVE toValuesLoop(_, _, _)
toValuesLoop(values, result, order) ==
    IF order = <<>> THEN values
    ELSE toValuesLoop(addValues(values, Head(order), result[Head(order)]), result, Tail(order))

\* toValues(data): `order` is the order result is ranged over
toValues(data, order) ==
    IF data.kind = "nil" THEN [err |-> "nil", values |-> EmptyValues]
    ELSE IF data.kind = "other" THEN [err |-> "json error", values |-> EmptyValues]
    ELSE [err |-> "nil", values |-> toValuesLoop(EmptyValues, data.m, order)]

\* ------------------------------------------------------------ resolveURL

\* url.URL.String(): the query after "?", the fragment after "#"
URLString(url) ==
    url.Prefix
    \o (IF url.ForceQuery \/ url.RawQuery # "" THEN "?" \o url.RawQuery ELSE "")
    \o (IF url.Fragment # "" THEN "#" \o url.Fragment ELSE "")

\* the loop of resolveURL over one query: q.Add(k, query.Get(k)) per key
RECURSIVE resolveKeys(_, _, _)
resolveKeys(q, query, keys) ==
    IF keys = <<>> THEN q
    ELSE resolveKeys(ValuesAdd(q, Head(keys), ValuesGet(query, Head(keys))), query, Tail(keys))

RECURSIVE resolveQueries(_, _)
resolveQueries(q, queries) ==
    IF queries = <<>> THEN q
    ELSE resolveQueries(resolveKeys(q, Head(queries), KeySeq(DOMAIN Head(queries))),
                        Tail(queries))

\* q.Encode(), the value assigned to u.RawQuery
resolveRawQuery(queries) == Encode(resolveQueries(EmptyValues, queries))

\* the base query joined with "&" whether or not a query precedes it
resolveReturnAlwaysAmp(rawURL, baseQuery, uRawQuery) ==
    IF baseQuery = "" THEN rawURL ELSE rawURL \o "&" \o baseQuery

\* the three returns of resolveURL
resolveReturn(rawURL, baseQuery, uRawQuery) ==
    IF baseQuery = "" THEN rawURL
    ELSE IF uRawQuery = "" THEN rawURL \o "?" \o baseQuery
    ELSE rawURL \o "&" \o baseQuery

\* XClient.resolveURL run alone: the URL as it leaves it, and the string
resolveURL(url, base, queries) ==
    LET u2 == [url EXCEPT !.RawQuery = resolveRawQuery(queries)]
    IN  [u |-> u2, str |-> resolveReturn(URLString(u2), Encode(base), u2.RawQuery)]

\* ------------------------------------------------ Get / Delete / Post / Put

\* XClient.call: NewRequest, then XDo
clientCall(base, method, url, body, header, baseOrder, hdrOrder, ctxAfter, outcome) ==
    LET r == NewRequestOp(base, method, url, body, header, baseOrder, hdrOrder)
    IN  IF r.err # "nil" THEN [req |-> r, resp |-> "nil", err |-> r.err]
        ELSE LET x == XDoOp(ctxAfter, outcome)
             IN  [req |-> r, resp |-> x.resp, err |-> x.err]

\* the header argument of the calls: none, or one that overrides the base
CallHeaders == {h \in Headers : \A k \in DOMAIN h : k = "X" /\ h[k] = "2"}

NoCall == [method |-> "none", data |-> CHOOSE d \in QueryData : d.kind = "nil",
           values |-> EmptyValues, uIn |-> IdleURL, url |-> "",
           req |-> NoRequest, resp |-> "nil", err |-> "nil"]

\* XClient.Get and XClient.Delete: the data is the call query
QueryCall(method) ==
    /\ call.method = "none"
    /\ \E data \in QueryData, header \in CallHeaders,
          outcome \in {"response", "transport error"} :
         \E order \in Orders(DOMAIN data.m) :
            LET tv == toValues(data, order)
                ru == resolveURL(u, client.BaseQuery, <<tv.values>>)
                c == clientCall(client.BaseHeader, method, ru.str, NilValues, header,
                                KeySeq(DOMAIN client.BaseHeader), KeySeq(DOMAIN header),
                                "live", outcome)
            IN  IF tv.err # "nil"
                THEN /\ call' = [NoCall EXCEPT !.method = method, !.data = data, !.uIn = u,
                                               !.err = tv.err]
                     /\ u' = u
                ELSE /\ call' = [method |-> method, data |-> data, values |-> tv.values,
                                 uIn |-> u, url |-> ru.str, req |-> c.req,
                                 resp |-> c.resp, err |-> c.err]
                     /\ u' = ru.u

\* XClient.Post and XClient.Put: the data is the form body, resolveURL gets
\* no call query
BodyCall(method) ==
    /\ call.method = "none"
    /\ \E data \in QueryData, header \in CallHeaders,
          outcome \in {"response", "transport error"} :
         \E order \in Orders(DOMAIN data.m) :
            LET tv == toValues(data, order)
                ru == resolveURL(u, client.BaseQuery, <<>>)
                c == clientCall(client.BaseHeader, method, ru.str, SomeValues(tv.values),
                                header,
                                KeySeq(DOMAIN client.BaseHeader), KeySeq(DOMAIN header),
                                "live", outcome)
            IN  IF tv.err # "nil"
                THEN /\ call' = [NoCall EXCEPT !.method = method, !.data = data, !.uIn = u,
                                               !.err = tv.err]
                     /\ u' = u
                ELSE /\ call' = [method |-> method, data |-> data, values |-> tv.values,
                                 uIn |-> u, url |-> ru.str, req |-> c.req,
                                 resp |-> c.resp, err |-> c.err]
                     /\ u' = ru.u

Get == QueryCall("GET")
Delete == QueryCall("DELETE")
Post == BodyCall("POST")
Put == BodyCall("PUT")

\* the URLs handed in: plain, with a query of its own, parsed from a string
\* ending in "?", with a fragment
CallURLs ==
    {[Prefix |-> GoodURL, RawQuery |-> "", ForceQuery |-> FALSE, Fragment |-> ""],
     [Prefix |-> GoodURL, RawQuery |-> "z=9", ForceQuery |-> FALSE, Fragment |-> ""],
     [Prefix |-> GoodURL, RawQuery |-> "", ForceQuery |-> TRUE, Fragment |-> ""],
     [Prefix |-> GoodURL, RawQuery |-> "", ForceQuery |-> FALSE, Fragment |-> "frag"]}

BaseQueries ==
    {EmptyValues, [k \in {"a"} |-> <<"1">>], [k \in {"a", "b"} |-> IF k = "a" THEN <<"1">> ELSE <<"3">>]}

BaseHeaderOfCalls == [k \in {"X"} |-> "1"]

\* ------------------------------------- concurrent calls on one *url.URL

\* Two goroutines, each in Get or Delete with the same u.  resolveURL
\* writes u.RawQuery, reads it back through u.String() and reads it again
\* for its last branch; the goroutines interleave between these accesses.
Procs == {1, 2}

ConcData ==
    {d \in QueryData :
        \/ d.kind = "nil"
        \/ d.kind = "object" /\ DOMAIN d.m = {"b"} /\ d.m["b"] = [t |-> "num", s |-> "2"]
        \/ d.kind = "object" /\ DOMAIN d.m = {"m[%s]"}
             /\ d.m["m[%s]"] = [t |-> "map", m |-> [k \in {"a"} |-> [t |-> "bool", s |-> "true"]]]}

\* u.RawQuery = q.Encode(), after toValues and the loop that builds q
SetRawQuery(i) ==
    /\ procs[i].pc = "start"
    /\ LET tv == toValues(procs[i].data, KeySeq(DOMAIN procs[i].data.m))
       IN  /\ u' = [u EXCEPT !.RawQuery = resolveRawQuery(<<tv.values>>)]
           /\ procs' = [procs EXCEPT ![i].pc = "wrote", ![i].values = tv.values]
    /\ UNCHANGED client

\* baseQuery := c.BaseQuery.Encode(); rawURL := u.String()
ReadString(i) ==
    /\ procs[i].pc = "wrote"
    /\ procs' = [procs EXCEPT ![i].pc = "read", ![i].rawURL = URLString(u)]
    /\ UNCHANGED <<u, client>>

\* the returns of resolveURL, then call: the request is sent to the URL
Return(i) ==
    /\ procs[i].pc = "read"
    /\ procs' = [procs EXCEPT ![i].pc = "done",
                              ![i].url = resolveReturn(procs[i].rawURL,
                                                       Encode(client.BaseQuery), u.RawQuery)]
    /\ UNCHANGED <<u, client>>

\* ------------------------------------------------------- specifications

InitResp ==
    /\ resp \in [Body : Bodies, Fails : BOOLEAN, ContentEncoding : Encodings, Closed : {FALSE}]
    /\ rd = NoRead
    /\ client = IdleClient /\ req = IdleReq /\ xdo = IdleXDo
    /\ u = IdleURL /\ call = NoCall /\ procs = IdleProcs

NextResp ==
    \/ DecodeJson /\ UNCHANGED <<client, req, xdo, u, call, procs>>
    \/ ReadAll /\ UNCHANGED <<client, req, xdo, u, call, procs>>
    \/ Copy /\ UNCHANGED <<client, req, xdo, u, call, procs>>

SpecResp == InitResp /\ [][NextResp]_vars

InitReq ==
    /\ client \in [BaseHeader : Headers, BaseQuery : {<<>>}]
    /\ req = IdleReq /\ xdo = IdleXDo
    /\ resp = IdleResp /\ rd = NoRead
    /\ u = IdleURL /\ call = NoCall /\ procs = IdleProcs

NextReq ==
    \/ NewRequest /\ UNCHANGED <<resp, rd, client, u, call, procs>>
    \/ NewUploadRequest /\ UNCHANGED <<resp, rd, client, u, call, procs>>
    \/ NewMultipartRequest /\ UNCHANGED <<resp, rd, client, u, call, procs>>
    \/ XDo /\ UNCHANGED <<resp, rd, client, u, call, procs>>

SpecReq == InitReq /\ [][NextReq]_vars

InitCall ==
    /\ client \in [BaseHeader : {BaseHeaderOfCalls}, BaseQuery : BaseQueries]
    /\ u \in CallURLs
    /\ call = NoCall
    /\ resp = IdleResp /\ rd = NoRead /\ req = IdleReq /\ xdo = IdleXDo /\ procs = IdleProcs

NextCall ==
    \/ Get /\ UNCHANGED <<resp, rd, client, req, xdo, procs>>
    \/ Delete /\ UNCHANGED <<resp, rd, client, req, xdo, procs>>
    \/ Post /\ UNCHANGED <<resp, rd, client, req, xdo, procs>>
    \/ Put /\ UNCHANGED <<resp, rd, client, req, xdo, procs>>

SpecCall == InitCall /\ [][NextCall]_vars

InitConc ==
    /\ client \in [BaseHeader : {BaseHeaderOfCalls}, BaseQuery : BaseQueries]
    /\ u \in CallURLs
    /\ procs \in {p \in [Procs -> [pc : {"start"}, method : {"GET", "DELETE"}, data : ConcData,
                                   values : {EmptyValues}, rawURL : {""}, url : {""}]] :
                    p[1].data # p[2].data}
    /\ call = NoCall
    /\ resp = IdleResp /\ rd = NoRead /\ req = IdleReq /\ xdo = IdleXDo

NextConc ==
    \/ \E i \in Procs : SetRawQuery(i) /\ UNCHANGED <<resp, rd, req, xdo, call>>
    \/ \E i \in Procs : ReadString(i) /\ UNCHANGED <<resp, rd, req, xdo, call>>
    \/ \E i \in Procs : Return(i) /\ UNCHANGED <<resp, rd, req, xdo, call>>

SpecConc == InitConc /\ [][NextConc]_vars

\* ---------------------------------------------------------------- claims

\* C1: after DecodeJson, ReadAll or Copy has returned, the response body has
\* been closed, for either encoding and whether the read succeeded or failed.
C1_BodyClosedAfterRead == rd.mode # "none" => resp.Closed

\* C2: XDo invoked with a context that is already cancelled (or past its
\* deadline) returns the context's error and no response, whatever the
\* transport returned for the call.
C2_CancelledContextYieldsContextError ==
    (xdo.state = "returned" /\ xdo.ctx # "live")
        => (xdo.ret.err = CtxErr(xdo.ctx) /\ xdo.ret.resp = "nil")

RECURSIVE SumSeq(_)
SumSeq(ns) == IF ns = <<>> THEN 0 ELSE Head(ns) + SumSeq(Tail(ns))

\* the number of non-null scalar leaves of a structured value
RECURSIVE NonNullLeaves(_)
NonNullLeaves(v) ==
    IF v.t = "seq" THEN SumSeq([i \in 1..Len(v.e) |-> NonNullLeaves(v.e[i])])
    ELSE IF v.t = "map" THEN
        LET ks == KeySeq(DOMAIN v.m)
        IN  SumSeq([i \in 1..Len(ks) |-> NonNullLeaves(v.m[ks[i]])])
    ELSE IF v.t = "null" THEN 0
    ELSE 1

NonNullLeavesOfData(d) == NonNullLeaves([t |-> "map", m |-> d.m])

\* the number of values of a url.Values
TotalValues(v) ==
    LET ks == KeySeq(DOMAIN v)
    IN  SumSeq([i \in 1..Len(ks) |-> Len(v[ks[i]])])

\* C3: toValues omits null leaves: the values of its result are as many as
\* the non-null scalar leaves of its input.
C3_NullLeavesOmitted ==
    (call.method # "none" /\ call.data.kind # "other")
        => TotalValues(call.values) = NonNullLeavesOfData(call.data)

\* C4: NewMultipartRequest closes a closable reader only after the reader's
\* form field was created and its stream copied: no Create or Copy of a
\* reader follows that reader's Close.
C4_CloseOnlyAfterCopy ==
    \A i, j \in 1..Len(req.log) :
        (req.log[i].op = "Close" /\ req.log[j].op # "Close" /\ req.log[i].key = req.log[j].key)
            => j < i

\* C5: on an empty response body, identity or gzip encoded, ReadAll returns
\* zero bytes and no error and DecodeJson returns no error.
C5_EmptyBodyIsNoError ==
    (rd.mode \in {"ReadAll", "DecodeJson"} /\ rd.first /\ rd.in = <<>> /\ ~resp.Fails)
        => (rd.err = "nil" /\ rd.data = <<>>)

\* the values a header map gives a canonical key
ValuesFor(h, K) == {h[k] : k \in {x \in DOMAIN h : Canon(x) = K}}

\* C6: in every request constructor the final header follows base <
\* content-type-derived < call-specific: a key the call header sets carries
\* the call header's value; else Content-Type carries the media type the
\* mode derives, if it derives one; else the key carries the base header's
\* value; a key none of them sets is absent.  (Keys are those of the request
\* header, canonical as Header.Set writes them.)
C6_HeaderPrecedence ==
    (req.mode # "none" /\ req.out.err = "nil") =>
        \A K \in {Canon(k) : k \in HeaderKeys} :
            LET callVals == ValuesFor(req.header, K)
                baseVals == ValuesFor(client.BaseHeader, K)
                final == req.out.Header
            IN  IF callVals # {} THEN K \in DOMAIN final /\ final[K] \in callVals
                ELSE IF K = "Content-Type" /\ req.derived # "none"
                    THEN K \in DOMAIN final /\ final[K] = req.derived
                ELSE IF baseVals # {} THEN K \in DOMAIN final /\ final[K] \in baseVals
                ELSE K \notin DOMAIN final

\* C6 witness: an upload request where the call header overrides the base
\* X and the derived media type overrides the base Content-Type.
C6_Witness ==
    /\ req.mode = "NewUploadRequest" /\ req.out.err = "nil"
    /\ "X" \in DOMAIN client.BaseHeader /\ client.BaseHeader["X"] = "1"
    /\ "Content-Type" \in DOMAIN client.BaseHeader
    /\ DOMAIN req.header = {"X"} /\ req.header["X"] = "2"
    /\ req.out.Header["X"] = "2"
    /\ req.out.Header["Content-Type"] = "text/plain"

\* the call query resolveURL was given by the call
CallQueryOf(c) == IF c.method \in {"GET", "DELETE"} THEN c.values ELSE EmptyValues

SingleValued(v) == \A k \in DOMAIN v : Len(v[k]) = 1

\* C7: the string resolveURL returns is the URL carrying the call query,
\* then the base query: nothing more when the base query is empty, "?" and
\* the base query when the call query is empty, "&" and the base query
\* otherwise; for base a=1, call b=2 and http://h/p it is
\* http://h/p?b=2&a=1.
C7_CallQueryThenBaseQuery ==
    (call.method # "none" /\ call.data.kind # "other") =>
        LET baseQ == Encode(client.BaseQuery)
            callQ == u.RawQuery
        IN  /\ CallQueryOf(call) = EmptyValues => callQ = ""
            /\ SingleValued(CallQueryOf(call)) => callQ = Encode(CallQueryOf(call))
            /\ call.url = URLString(u)
                            \o (IF baseQ = "" THEN ""
                                ELSE (IF callQ = "" THEN "?" ELSE "&") \o baseQ)
            /\ (/\ call.uIn.Fragment = "" /\ ~call.uIn.ForceQuery
                /\ baseQ = "a=1" /\ callQ = "b=2")
                    => call.url = "http://h/p?b=2&a=1"
            /\ (call.uIn.Fragment = "" /\ ~call.uIn.ForceQuery /\ baseQ = "" /\ callQ = "b=2")
                    => call.url = "http://h/p?b=2"
            /\ (call.uIn.Fragment = "" /\ ~call.uIn.ForceQuery /\ baseQ = "a=1" /\ callQ = "")
                    => call.url = "http://h/p?a=1"

\* C7 witness: the Get of the spec's example.
C7_Witness ==
    /\ call.method = "GET"
    /\ DOMAIN call.values = {"b"} /\ call.values["b"] = <<"2">>
    /\ Encode(client.BaseQuery) = "a=1"
    /\ call.url = "http://h/p?b=2&a=1"

\* what a read mode is given to read: nothing of a body closed before
InputOf(r) == IF r.inClosed THEN <<>> ELSE r.in

\* C8: DecodeJson and ReadAll read through the gzip decompressor exactly
\* when Content-Encoding is the literal gzip and read the raw body
\* otherwise; Copy writes the raw body bytes to the sink unchanged whatever
\* the Content-Encoding.
C8_ViewFixedByModeAndEncoding ==
    /\ rd.mode \in {"DecodeJson", "ReadAll"} =>
            (rd.view = "gzip" <=> resp.ContentEncoding = "gzip")
    /\ (rd.mode = "ReadAll" /\ resp.ContentEncoding # "gzip") => rd.data = InputOf(rd)
    /\ (rd.mode = "ReadAll" /\ resp.ContentEncoding = "gzip") =>
            rd.data = GzipNewReader([data |-> InputOf(rd), err |-> "EOF"]).stream.data
    /\ rd.mode = "Copy" => (rd.view = "raw" /\ rd.sink = InputOf(rd) /\ rd.data = <<>>)

\* C8 witness: Copy on a gzip-encoded body wrote the compressed bytes.
C8_Witness ==
    /\ rd.mode = "Copy" /\ resp.ContentEncoding = "gzip"
    /\ rd.in = <<"G", "p", "T">> /\ rd.sink = <<"G", "p", "T">>

\* C9: Get and Delete put every value of the flattened call query into the
\* query string of the request URL: a key with n values gives n key=value
\* pairs, in order.
C9_EveryCallValueInURL ==
    (call.method \in {"GET", "DELETE"} /\ call.data.kind # "other")
        => u.RawQuery = Encode(call.values)

\* C10: two concurrent Get/Delete calls given the same URL object and
\* different call queries each send the URL they would send alone: their own
\* call query, then the base query.
C10_ConcurrentCallsKeepOwnQuery ==
    \A i \in Procs :
        procs[i].pc = "done"
            => procs[i].url = resolveURL(u, client.BaseQuery, <<procs[i].values>>).str

====
